---- MODULE Spec2Model ----
(***************************************************************************)
(* LinguAlive audio preparation pipeline                                   *)
(* (linguServer/api/utils/audio_processing.py).                            *)
(*                                                                         *)
(* Several invocations of process_audio run against one filesystem.  Each  *)
(* invocation is a sequence of steps; the steps that touch the filesystem  *)
(* (the ffmpeg subprocess, librosa.load, os.makedirs, sf.write, the        *)
(* sidecar write, os.remove) interleave with the other invocations.  The   *)
(* libraries are modelled by their contracts, and any library call may     *)
(* raise.  SpecSerial is one worker taking one call at a time; SpecPure    *)
(* is vad_with_librosa and normalize_peak called on their own, with        *)
(* seconds and samples as exact fractions.                                 *)
(***************************************************************************)
EXTENDS Integers, Sequences, FiniteSets, TLC

\* ------------------------------------------------------------------ bounds

\* Total number of process_audio calls started in one behaviour.
MaxCalls == 2

Procs == {1, 2}

\* Most intervals librosa.effects.split returns in a call of vad_with_librosa
\* on its own.
MaxIntervals == 3

\* Most samples of a buffer given to normalize_peak on its own.
MaxSamples == 3

\* ------------------------------------------------------------------- paths
\* A path is [dir, stem, ext]; the stem is a sequence of name parts, so that
\* os.path.splitext(p)[0] + "_converted" is Append(stem, "_converted").

NoPath == [dir |-> "", stem |-> <<>>, ext |-> ""]

Path(d, s, e) == [dir |-> d, stem |-> s, ext |-> e]

\* str.lower() on the extensions the model uses.
Lower(ext) ==
    CASE ext = ".MP3" -> ".mp3"
      [] ext = ".OGG" -> ".ogg"
      [] ext = ".WAV" -> ".wav"
      [] OTHER -> ext

ConvExts == {".webm", ".mp3", ".m4a", ".ogg", ".flac"}

needs_conversion(input_path) == Lower(input_path.ext) \in ConvExts

\* f"{os.path.splitext(input_path)[0]}_converted.wav"
TempPath(input_path) ==
    Path(input_path.dir, Append(input_path.stem, "_converted"), ".wav")

\* os.path.splitext(output_path)[0] + "_metadata.json"
MetaPath(output_path) ==
    Path(output_path.dir, Append(output_path.stem, "_metadata"), ".json")

InputPaths ==
    { Path("raw", <<"a">>, ".mp3"),
      Path("raw", <<"a">>, ".OGG"),
      Path("raw", <<"a">>, ".wav") }

\* The second output path is the <stem>_converted.wav of the inputs.
OutputPaths ==
    { Path("clean", <<"x">>, ".wav"),
      Path("raw", <<"a", "_converted">>, ".wav") }

TargetRates == {8000, 16000}

AllPaths ==
    InputPaths \cup OutputPaths
        \cup { TempPath(p) : p \in InputPaths }
        \cup { MetaPath(p) : p \in OutputPaths }

\* ------------------------------------------------------------------- files
\* A file is [kind, sr, len, peak, audio, complete, writer, meta]; kind
\* "absent" is no file.  peak is max(|sample|) in thousandths, audio names
\* the recording the samples come from, complete is FALSE for a file whose
\* writer stopped part-way, writer is the invocation that wrote it (0 for an
\* upload).

NoMeta ==
    [input_file |-> NoPath, output_file |-> NoPath, original_sr |-> 0,
     original_duration_sec |-> <<0, 1>>, final_sr |-> 0,
     final_duration_sec |-> <<0, 1>>, processing_steps |-> <<>>]

NoFile ==
    [kind |-> "absent", sr |-> 0, len |-> 0, peak |-> 0, audio |-> NoPath,
     complete |-> FALSE, writer |-> 0, meta |-> NoMeta]

AudioFile(k, rate, n, pk, a, c, w) ==
    [kind |-> k, sr |-> rate, len |-> n, peak |-> pk, audio |-> a,
     complete |-> c, writer |-> w, meta |-> NoMeta]

JsonFile(m, c, w) ==
    [kind |-> "json", sr |-> 0, len |-> 0, peak |-> 0, audio |-> NoPath,
     complete |-> c, writer |-> w, meta |-> m]

\* The uploads present before any call: one second of audio each.
InitialFile(p) ==
    IF p = Path("raw", <<"a">>, ".mp3") THEN AudioFile("mp3", 44100, 44100, 500, p, TRUE, 0)
    ELSE IF p = Path("raw", <<"a">>, ".OGG") THEN AudioFile("ogg", 48000, 48000, 500, p, TRUE, 0)
    ELSE IF p = Path("raw", <<"a">>, ".wav") THEN AudioFile("wav", 16000, 16000, 500, p, TRUE, 0)
    ELSE NoFile

\* A file that is not an upload and may be there before any call: one named
\* like the temporary file of the uploads.
PreExisting(p) ==
    IF p = Path("raw", <<"a", "_converted">>, ".wav")
    THEN AudioFile("wav", 22050, 22050, 700, p, TRUE, 0)
    ELSE InitialFile(p)

\* The filesystems a first call can find.
InitialFilesystems ==
    { [p \in AllPaths |-> InitialFile(p)], [p \in AllPaths |-> PreExisting(p)] }

\* ----------------------------------------------------------------- buffers
\* An AudioBuffer is [len, peak, audio, ops]: the sample count, max(|sample|)
\* in thousandths, the recording it comes from and the transforms applied to
\* the samples so far.

NoBuf == [len |-> 0, peak |-> 0, audio |-> NoPath, ops |-> <<"unset">>]

Buf(n, pk, a, o) == [len |-> n, peak |-> pk, audio |-> a, ops |-> o]

RECURSIVE GCD(_, _)
GCD(a, b) == IF b = 0 THEN a ELSE GCD(b, a % b)

\* The quotient n / d as a fraction in lowest terms.
Frac(n, d) ==
    LET g == GCD(n, d) IN IF g = 0 THEN <<0, 1>> ELSE <<n \div g, d \div g>>

\* int(round(x)) for the non-negative fraction n / d.
Round(n, d) == (2 * n + d) \div (2 * d)

CeilDiv(n, d) == (n + d - 1) \div d

Max(a, b) == IF a >= b THEN a ELSE b

Min(a, b) == IF a <= b THEN a ELSE b

RECURSIVE SumLen(_, _)
SumLen(chunks, i) ==
    IF i > Len(chunks) THEN 0 ELSE chunks[i] + SumLen(chunks, i + 1)

\* ----------------------------------------------------------- pure stages

\* ffmpeg's fixed output rate ('-ar', '44100').
FfmpegRate == 44100

\* min_segment_duration = 0.3 as MinSegNum / MinSegDen.
MinSegNum == 3

MinSegDen == 10

\* duration = 0.5 in get_noise_profile as ProfileNum / ProfileDen.
ProfileNum == 1

ProfileDen == 2

hop_length == 512

\* target_peak = 0.95 in thousandths.
target_peak == 950

\* What librosa.effects.split may return for a buffer of n samples: (start_i,
\* end_i) sample intervals, left to right.  The library decides from the
\* samples; the model offers a result whose only interval is too short, and
\* one with a short and a long interval.
SplitResults(n, sr) ==
    { << <<0, sr \div 8>> >>,
      << <<0, sr \div 8>>, <<sr \div 2, n>> >> }

\* vad_with_librosa with the comparison strict: a segment of exactly
\* min_segment_duration is dropped.
vad_with_librosa_Strict(intervals, sr) ==
    LET Keep(iv) == (iv[2] - iv[1]) * MinSegDen > MinSegNum * sr
        kept == SelectSeq(intervals, Keep)
    IN  [i \in 1..Len(kept) |->
            [start_s |-> Frac(kept[i][1], sr), end_s |-> Frac(kept[i][2], sr)]]

\* vad_with_librosa after librosa.effects.split returned intervals: the
\* intervals of at least min_segment_duration, as (start_s, end_s) in seconds.
vad_with_librosa(intervals, sr) ==
    LET Keep(iv) == (iv[2] - iv[1]) * MinSegDen >= MinSegNum * sr
        kept == SelectSeq(intervals, Keep)
    IN  [i \in 1..Len(kept) |->
            [start_s |-> Frac(kept[i][1], sr), end_s |-> Frac(kept[i][2], sr)]]

\* y[start_idx:end_idx] has this many samples.
SliceLen(n, start_idx, end_idx) == Max(0, Min(end_idx, n) - Min(start_idx, n))

concatenate_segments(y, sr, segments) ==
    IF Len(segments) = 0 THEN Buf(0, 0, NoPath, <<>>)
    ELSE LET chunks ==
                 [i \in 1..Len(segments) |->
                     SliceLen(y.len,
                              Round(segments[i].start_s[1] * sr, segments[i].start_s[2]),
                              Round(segments[i].end_s[1] * sr, segments[i].end_s[2]))]
             total == SumLen(chunks, 1)
         IN  Buf(total, IF total = 0 THEN 0 ELSE y.peak, y.audio,
                 Append(y.ops, "vad"))

\* The frames librosa.feature.rms yields for n samples (centered frames).
NumFrames(n) == 1 + n \div hop_length

\* get_noise_profile, min_frame being np.argmin of the frame energies.
get_noise_profile(y, sr, min_frame) ==
    LET n_samples == (ProfileNum * sr) \div ProfileDen IN
    IF y.len >= n_samples /\ n_samples > 0
    THEN Buf(n_samples, y.peak, y.audio, Append(y.ops, "profile"))
    ELSE IF NumFrames(y.len) = 0 THEN y
    ELSE LET start == Max(0, min_frame * hop_length - n_samples \div 2)
             end == Min(y.len, start + Max(n_samples, 1))
         IN  Buf(Max(0, end - start), y.peak, y.audio, Append(y.ops, "profile"))

\* The values np.argmin may take in get_noise_profile.
MinFrames(y, sr) ==
    IF y.len >= (ProfileNum * sr) \div ProfileDen /\ (ProfileNum * sr) \div ProfileDen > 0
    THEN {0}
    ELSE 0..(NumFrames(y.len) - 1)

\* nr.reduce_noise when it returns: a signal of the same length.
reduce_noise(y) == Buf(y.len, y.peak, y.audio, Append(y.ops, "denoise"))

normalize_peak(y) ==
    IF y.len = 0 THEN y
    ELSE IF y.peak = 0 THEN y
    ELSE Buf(y.len, (((y.peak * 1000) \div y.peak) * target_peak) \div 1000,
             y.audio, Append(y.ops, "normalize"))

\* A sample is a fraction <<n, d>> with d > 0, and a sample array a sequence
\* of them.
Abs(n) == IF n < 0 THEN 0 - n ELSE n

FracAbs(a) == <<Abs(a[1]), a[2]>>

FracLeq(a, b) == a[1] * b[2] <= b[1] * a[2]

FracLess(a, b) == a[1] * b[2] < b[1] * a[2]

FracSub(a, b) == Frac(a[1] * b[2] - b[1] * a[2], a[2] * b[2])

FracMul(a, b) == Frac(a[1] * b[1], a[2] * b[2])

\* a / b for b # 0.
FracDiv(a, b) ==
    IF b[1] > 0 THEN Frac(a[1] * b[2], a[2] * b[1])
    ELSE Frac((0 - a[1]) * b[2], a[2] * (0 - b[1]))

\* np.max over a non-empty array.
RECURSIVE ArrayMax(_, _)
ArrayMax(a, i) ==
    IF i = Len(a) THEN a[i]
    ELSE LET rest == ArrayMax(a, i + 1)
         IN  IF FracLeq(rest, a[i]) THEN a[i] ELSE rest

\* np.abs
ArrayAbs(a) == [i \in 1..Len(a) |-> FracAbs(a[i])]

\* target_peak = 0.95 as a fraction.
TargetPeak == Frac(target_peak, 1000)

\* normalize_peak with np.abs left out of the peak.
normalize_peak_array_NoAbs(y) ==
    IF Len(y) = 0 THEN y
    ELSE LET peak == ArrayMax(y, 1) IN
         IF peak[1] = 0 THEN y
         ELSE LET y_norm == [i \in 1..Len(y) |-> FracDiv(y[i], peak)]
              IN  [i \in 1..Len(y) |-> FracMul(y_norm[i], TargetPeak)]

\* normalize_peak, lines 94-102, on the samples themselves.
normalize_peak_array(y) ==
    IF Len(y) = 0 THEN y
    ELSE LET peak == ArrayMax(ArrayAbs(y), 1) IN
         IF peak[1] = 0 THEN y
         ELSE LET y_norm == [i \in 1..Len(y) |-> FracDiv(y[i], peak)]
              IN  [i \in 1..Len(y) |-> FracMul(y_norm[i], TargetPeak)]

\* librosa.resample when it returns: ceil(n * target_sr / orig_sr) samples.
resample(y, orig_sr, target_sr) ==
    Buf(CeilDiv(y.len * target_sr, orig_sr), y.peak, y.audio,
        Append(y.ops, "resample"))

processing_steps ==
    << "VAD(librosa.effects.split)", "NoiseReduction(noisereduce)",
       "Normalization(peak 0.95)", "Resample(16kHz)", "Save(16-bit PCM)" >>

\* ------------------------------------------------------------------- state

VARIABLES
    fs,                \* the filesystem: AllPaths -> file
    dirs,              \* the directories that exist
    ffmpeg_installed,  \* whether the ffmpeg executable is on the host
    inv,               \* Procs -> the invocation's frame (its locals and pc)
    calls,             \* process_audio calls started so far
    last_return,       \* OutputPaths -> what the latest returned call returned
    raised,            \* whether some call has ended by raising
    pure               \* a call of vad_with_librosa or normalize_peak on its own

vars == <<fs, dirs, ffmpeg_installed, inv, calls, last_return, raised, pure>>

\* No call of a pure function on its own: process_audio makes the calls.
NoCall ==
    [fn |-> "none", pc |-> "none", sr |-> 0, intervals |-> <<>>,
     segments |-> <<>>, y |-> <<>>, y_out |-> <<>>]

NoRet == [set |-> FALSE, duration |-> <<0, 1>>, sr |-> 0]

Ret(d, rate) == [set |-> TRUE, duration |-> d, sr |-> rate]

\* The frame of an invocation that has not been called.  temp_path is the
\* output_path local of convert_to_wav.  ffmpeg_runs, decoded, absorbed,
\* wrote, foreign and at_exit record what the run did: the times it started
\* the ffmpeg executable, whether ffmpeg exited with status 0,
\* the faults it swallowed, the paths it created or overwrote, whether it
\* truncated, read or removed a temporary file that another invocation wrote,
\* which of its paths named a file when the call ended, and the filesystem
\* as it was when the call began.
NoFrame ==
    [self |-> 0, pc |-> "idle", input_path |-> NoPath, output_path |-> NoPath,
     target_sr |-> 0, temp_path |-> NoPath, converted_path |-> NoPath,
     load_path |-> NoPath,
     y |-> NoBuf, sr |-> 0, segments |-> <<>>, y_vad |-> NoBuf,
     noise_profile |-> NoBuf, target_for_denoise |-> NoBuf,
     y_denoised |-> NoBuf, y_normalized |-> NoBuf, y_resampled |-> NoBuf,
     final_sr |-> 0, duration |-> <<0, 1>>, metadata |-> NoMeta,
     outcome |-> "none", error |-> "none", ret |-> NoRet,
     ffmpeg_runs |-> 0, decoded |-> FALSE, absorbed |-> {}, wrote |-> {},
     foreign |-> FALSE, at_exit |-> {}, before |-> <<>>]

Init ==
    /\ fs \in InitialFilesystems
    /\ dirs = {"raw"}
    /\ ffmpeg_installed \in BOOLEAN
    /\ inv = [p \in Procs |-> [NoFrame EXCEPT !.self = p]]
    /\ calls = 0
    /\ last_return = [o \in OutputPaths |-> NoRet]
    /\ raised = FALSE
    /\ pure = NoCall

Exists(path) == fs[path].kind # "absent"

\* The frame after the statement at its pc raised: control is in the
\* except clause of process_audio (line 201), which uses converted_path
\* alone of the locals.
Raise(f, err) ==
    [NoFrame EXCEPT !.self = f.self, !.pc = "except", !.error = err,
                    !.input_path = f.input_path, !.output_path = f.output_path,
                    !.target_sr = f.target_sr,
                    !.converted_path = f.converted_path,
                    !.ffmpeg_runs = f.ffmpeg_runs, !.decoded = f.decoded,
                    !.absorbed = f.absorbed, !.wrote = f.wrote,
                    !.foreign = f.foreign, !.before = f.before]

\* The paths an invocation may create.
OwnPaths(f) ==
    {TempPath(f.input_path), f.output_path, MetaPath(f.output_path)}

\* The frame once the call is over, leaving the filesystem fs2: its locals
\* are gone.
Finished(f, out, r, fs2) ==
    [NoFrame EXCEPT !.self = f.self, !.pc = "done", !.input_path = f.input_path,
                    !.output_path = f.output_path, !.target_sr = f.target_sr,
                    !.outcome = out, !.error = f.error, !.ret = r,
                    !.ffmpeg_runs = f.ffmpeg_runs, !.decoded = f.decoded,
                    !.absorbed = f.absorbed, !.wrote = f.wrote,
                    !.foreign = f.foreign \/
                        (\E q \in AllPaths :
                            fs2[q] # fs[q] /\ fs[q].writer # f.self),
                    !.at_exit = {q \in OwnPaths(f) : fs2[q].kind # "absent"},
                    !.before = f.before]

\* ----------------------------------------------------------------- actions

\* process_audio(input_path, output_path, target_sr) is called: lines
\* 120-130 up to the call of convert_to_wav.
Call(p) ==
    /\ inv[p].pc \in {"idle", "done"}
    /\ calls < MaxCalls
    /\ \E i \in InputPaths, o \in OutputPaths, t \in TargetRates :
          inv' = [inv EXCEPT ![p] =
                    [NoFrame EXCEPT
                        !.self = p,
                        !.pc = IF needs_conversion(i) THEN "convert" ELSE "load",
                        !.input_path = i, !.output_path = o, !.target_sr = t,
                        !.before = fs,
                        !.load_path = IF needs_conversion(i) THEN NoPath ELSE i]]
    /\ calls' = calls + 1
    /\ UNCHANGED <<pure, fs, dirs, ffmpeg_installed, last_return, raised>>

\* Lines 18-21 of convert_to_wav: output_path is None, so the temporary path
\* is derived from the input path alone.
ConvertToWav(p) ==
    LET f == inv[p]
    IN  /\ f.pc = "convert"
        /\ inv' = [inv EXCEPT ![p] =
                     [f EXCEPT !.pc = "ffmpeg",
                               !.temp_path = TempPath(f.input_path)]]
        /\ UNCHANGED <<pure, fs, dirs, ffmpeg_installed, calls, last_return, raised>>

\* RunKeywords without the stderr keyword.
RunKeywords_NoStderr == [check |-> TRUE, capture_output |-> TRUE, stderr |-> "None"]

\* The keyword arguments of the subprocess.run call, lines 35-37.
RunKeywords == [check |-> TRUE, capture_output |-> TRUE, stderr |-> "PIPE"]

\* The message of the ValueError that subprocess.run raises on its arguments.
CaptureOutputError == "stdout and stderr arguments may not be used with capture_output."

\* How subprocess.run(['ffmpeg', ...], **keywords) can end.  run() first
\* checks its keywords: with capture_output and a stdout or stderr that is not
\* None it raises ValueError before it starts any process.  Otherwise it
\* starts the executable (FileNotFoundError without it) and, with check=True,
\* raises CalledProcessError on a non-zero exit status.
subprocess_run(keywords, installed) ==
    IF keywords.capture_output /\ keywords.stderr # "None"
    THEN {"ValueError"}
    ELSE IF ~installed THEN {"FileNotFoundError"}
    ELSE IF keywords.check THEN {"CalledProcessError", "CompletedProcess"}
    ELSE {"CompletedProcess"}

\* SubprocessRun with a failed conversion swallowed: the input is then loaded
\* directly.
SubprocessRun_FallsBack(p) ==
    LET f == inv[p]
        g == [f EXCEPT !.ffmpeg_runs = f.ffmpeg_runs + 1]
        tmp == f.temp_path
        src == fs[f.input_path]
        touched == [g EXCEPT !.wrote = g.wrote \cup {tmp},
                             !.foreign = g.foreign \/
                                 (Exists(tmp) /\ fs[tmp].writer # p)]
    IN  /\ f.pc = "ffmpeg"
        /\ \E result \in subprocess_run(RunKeywords, ffmpeg_installed) :
              \/ /\ result \in {"ValueError", "FileNotFoundError",
                                "CalledProcessError"}
                 /\ inv' = [inv EXCEPT ![p] =
                              [f EXCEPT !.pc = "load", !.load_path = f.input_path]]
                 /\ fs' = fs
              \/ /\ result = "CompletedProcess"
                 /\ Exists(f.input_path)
                 /\ inv' = [inv EXCEPT ![p] =
                              [touched EXCEPT !.pc = "load",
                                              !.converted_path = tmp,
                                              !.load_path = tmp,
                                              !.decoded = TRUE]]
                 /\ fs' = [fs EXCEPT ![tmp] =
                              AudioFile("wav", FfmpegRate,
                                        CeilDiv(src.len * FfmpegRate, src.sr),
                                        src.peak, f.input_path, TRUE, p)]
        /\ UNCHANGED <<pure, dirs, ffmpeg_installed, calls, last_return, raised>>

\* Lines 24-44 of convert_to_wav and lines 127-128 of process_audio.  The
\* call passes capture_output=True together with stderr=subprocess.PIPE, so
\* run() raises ValueError; that is neither CalledProcessError nor
\* FileNotFoundError, so it leaves convert_to_wav as it is, before
\* converted_path is assigned.  The other ways run() can end are the ones the
\* two except clauses and the return statement are written for:
\* FileNotFoundError and CalledProcessError become ValueError (after a
\* non-zero exit ffmpeg may have left a partly written file; '-y' truncates
\* an existing one), and after exit status 0 the path is returned and
\* becomes converted_path and load_path.
SubprocessRun(p) ==
    LET f == inv[p]
        g == [f EXCEPT !.ffmpeg_runs = f.ffmpeg_runs + 1]
        tmp == f.temp_path
        src == fs[f.input_path]
        touched == [g EXCEPT !.wrote = g.wrote \cup {tmp},
                             !.foreign = g.foreign \/
                                 (Exists(tmp) /\ fs[tmp].writer # p)]
    IN  /\ f.pc = "ffmpeg"
        /\ \E result \in subprocess_run(RunKeywords, ffmpeg_installed) :
              \/ /\ result = "ValueError"
                 /\ inv' = [inv EXCEPT ![p] = Raise(f, CaptureOutputError)]
                 /\ fs' = fs
              \/ /\ result = "FileNotFoundError"
                 /\ inv' = [inv EXCEPT ![p] = Raise(g, "ffmpeg is not installed")]
                 /\ fs' = fs
              \/ /\ result = "CalledProcessError"
                 /\ inv' = [inv EXCEPT ![p] = Raise(g, "Audio conversion failed")]
                 /\ fs' = fs
              \/ /\ result = "CalledProcessError"
                 /\ Exists(f.input_path)
                 /\ inv' = [inv EXCEPT ![p] =
                              Raise(touched, "Audio conversion failed")]
                 /\ fs' = [fs EXCEPT ![tmp] =
                              AudioFile("wav", FfmpegRate, 0, 0, f.input_path,
                                        FALSE, p)]
              \/ /\ result = "CompletedProcess"
                 /\ Exists(f.input_path)
                 /\ inv' = [inv EXCEPT ![p] =
                              [touched EXCEPT !.pc = "load",
                                              !.converted_path = tmp,
                                              !.load_path = tmp,
                                              !.decoded = TRUE]]
                 /\ fs' = [fs EXCEPT ![tmp] =
                              AudioFile("wav", FfmpegRate,
                                        CeilDiv(src.len * FfmpegRate, src.sr),
                                        src.peak, f.input_path, TRUE, p)]
        /\ UNCHANGED <<pure, dirs, ffmpeg_installed, calls, last_return, raised>>

\* librosa.load(load_path, sr=None, mono=True): raises on a missing or
\* truncated file, and may raise on a good one (an I/O error).
Load(p) ==
    LET f == inv[p]
        file == fs[f.load_path]
    IN  /\ f.pc = "load"
        /\ \/ /\ ~(Exists(f.load_path) /\ file.complete)
              /\ inv' = [inv EXCEPT ![p] = Raise(f, "unreadable")]
           \/ /\ Exists(f.load_path)
              /\ file.complete
              /\ inv' = [inv EXCEPT ![p] = Raise(f, "load")]
           \/ /\ Exists(f.load_path)
              /\ file.complete
              /\ inv' = [inv EXCEPT ![p] =
                            [f EXCEPT !.pc = "stages",
                                      !.y = Buf(file.len, file.peak, file.audio, <<>>),
                                      !.sr = file.sr,
                                      !.foreign = f.foreign \/
                                          (f.converted_path # NoPath /\ file.writer # p)]]
        /\ UNCHANGED <<pure, fs, dirs, ffmpeg_installed, calls, last_return, raised>>

\* Staged with the stitched buffer handed to the denoiser even when it is
\* empty.
Staged_NoFallback(f, intervals, min_frame, denoise_fault) ==
    LET segments == vad_with_librosa(intervals, f.sr)
        y_vad == concatenate_segments(f.y, f.sr, segments)
        noise_profile == get_noise_profile(f.y, f.sr, min_frame)
        target_for_denoise == y_vad
        y_denoised == IF denoise_fault THEN target_for_denoise
                      ELSE reduce_noise(target_for_denoise)
        y_normalized == normalize_peak(y_denoised)
    IN  [f EXCEPT !.segments = segments, !.y_vad = y_vad,
                  !.noise_profile = noise_profile,
                  !.target_for_denoise = target_for_denoise,
                  !.y_denoised = y_denoised,
                  !.y_normalized = y_normalized,
                  !.y_resampled = IF f.sr # f.target_sr
                                  THEN resample(y_normalized, f.sr, f.target_sr)
                                  ELSE y_normalized,
                  !.final_sr = IF f.sr # f.target_sr THEN f.target_sr ELSE f.sr,
                  !.absorbed = IF denoise_fault THEN f.absorbed \cup {"denoise"}
                               ELSE f.absorbed]

\* Staged with final_sr left at the native rate in the resampling branch.
Staged_KeepsNativeRate(f, intervals, min_frame, denoise_fault) ==
    LET segments == vad_with_librosa(intervals, f.sr)
        y_vad == concatenate_segments(f.y, f.sr, segments)
        noise_profile == get_noise_profile(f.y, f.sr, min_frame)
        target_for_denoise == IF y_vad.len > 0 THEN y_vad ELSE f.y
        y_denoised == IF denoise_fault THEN target_for_denoise
                      ELSE reduce_noise(target_for_denoise)
        y_normalized == normalize_peak(y_denoised)
    IN  [f EXCEPT !.segments = segments, !.y_vad = y_vad,
                  !.noise_profile = noise_profile,
                  !.target_for_denoise = target_for_denoise,
                  !.y_denoised = y_denoised,
                  !.y_normalized = y_normalized,
                  !.y_resampled = IF f.sr # f.target_sr
                                  THEN resample(y_normalized, f.sr, f.target_sr)
                                  ELSE y_normalized,
                  !.final_sr = f.sr,
                  !.absorbed = IF denoise_fault THEN f.absorbed \cup {"denoise"}
                               ELSE f.absorbed]

\* Lines 135-158, the in-memory stages, which touch nothing another
\* invocation can see: VAD, stitching, the noise profile, denoising inside
\* try/except, peak normalization and resampling.  vad_fault ... are the
\* stages whose library call raises in this run; intervals is what
\* librosa.effects.split returns and min_frame what np.argmin returns.
Staged(f, intervals, min_frame, denoise_fault) ==
    LET segments == vad_with_librosa(intervals, f.sr)
        y_vad == concatenate_segments(f.y, f.sr, segments)
        noise_profile == get_noise_profile(f.y, f.sr, min_frame)
        target_for_denoise == IF y_vad.len > 0 THEN y_vad ELSE f.y
        y_denoised == IF denoise_fault THEN target_for_denoise
                      ELSE reduce_noise(target_for_denoise)
        y_normalized == normalize_peak(y_denoised)
    IN  [f EXCEPT !.segments = segments, !.y_vad = y_vad,
                  !.noise_profile = noise_profile,
                  !.target_for_denoise = target_for_denoise,
                  !.y_denoised = y_denoised,
                  !.y_normalized = y_normalized,
                  !.y_resampled = IF f.sr # f.target_sr
                                  THEN resample(y_normalized, f.sr, f.target_sr)
                                  ELSE y_normalized,
                  !.final_sr = IF f.sr # f.target_sr THEN f.target_sr ELSE f.sr,
                  !.absorbed = IF denoise_fault THEN f.absorbed \cup {"denoise"}
                               ELSE f.absorbed]

Stages(p) ==
    LET f == inv[p]
    IN  /\ f.pc = "stages"
        /\ \/ inv' = [inv EXCEPT ![p] = Raise(f, "vad")]
           \/ inv' = [inv EXCEPT ![p] = Raise(f, "stitch")]
           \/ inv' = [inv EXCEPT ![p] = Raise(f, "profile")]
           \/ /\ f.sr # f.target_sr
              /\ inv' = [inv EXCEPT ![p] = Raise(f, "resample")]
           \/ \E intervals \in SplitResults(f.y.len, f.sr),
                 min_frame \in MinFrames(f.y, f.sr),
                 denoise_fault \in BOOLEAN :
                inv' = [inv EXCEPT ![p] =
                          [Staged(f, intervals, min_frame, denoise_fault)
                              EXCEPT !.pc = "makedirs"]]
        /\ UNCHANGED <<pure, fs, dirs, ffmpeg_installed, calls, last_return, raised>>

\* os.makedirs(os.path.dirname(output_path), exist_ok=True)
Makedirs(p) ==
    LET f == inv[p]
    IN  /\ f.pc = "makedirs"
        /\ \/ /\ inv' = [inv EXCEPT ![p] = Raise(f, "makedirs")]
              /\ dirs' = dirs
           \/ /\ inv' = [inv EXCEPT ![p] = [f EXCEPT !.pc = "write"]]
              /\ dirs' = dirs \cup {f.output_path.dir}
        /\ UNCHANGED <<pure, fs, ffmpeg_installed, calls, last_return, raised>>

\* The ProcessingRecord of lines 169-184.
Metadata(f, duration) ==
    [input_file |-> f.input_path, output_file |-> f.output_path,
     original_sr |-> f.sr, original_duration_sec |-> Frac(f.y.len, f.sr),
     final_sr |-> f.final_sr, final_duration_sec |-> duration,
     processing_steps |-> processing_steps]

\* sf.write(output_path, y_resampled, final_sr, subtype="PCM_16"), then
\* lines 166-184.  sf.write may raise before it creates the file or after.
Write(p) ==
    LET f == inv[p]
        out == f.output_path
        duration == Frac(f.y_resampled.len, f.final_sr)
        file(c) == AudioFile("wav", f.final_sr, f.y_resampled.len,
                             f.y_resampled.peak, f.y_resampled.audio, c, p)
    IN  /\ f.pc = "write"
        /\ \/ /\ inv' = [inv EXCEPT ![p] = Raise(f, "write")]
              /\ fs' = fs
           \/ /\ out.dir \in dirs
              /\ inv' = [inv EXCEPT ![p] =
                            Raise([f EXCEPT !.wrote = f.wrote \cup {out}], "write")]
              /\ fs' = [fs EXCEPT ![out] = file(FALSE)]
           \/ /\ out.dir \in dirs
              /\ inv' = [inv EXCEPT ![p] =
                            [f EXCEPT !.pc = "metadata",
                                      !.wrote = f.wrote \cup {out},
                                      !.duration = duration,
                                      !.metadata = Metadata(f, duration)]]
              /\ fs' = [fs EXCEPT ![out] = file(TRUE)]
        /\ UNCHANGED <<pure, dirs, ffmpeg_installed, calls, last_return, raised>>

\* WriteMetadata without its try/except: a failed write raises.
WriteMetadata_Unguarded(p) ==
    LET f == inv[p]
        meta_path == MetaPath(f.output_path)
    IN  /\ f.pc = "metadata"
        /\ \/ /\ inv' = [inv EXCEPT ![p] =
                            [f EXCEPT !.pc = "cleanup",
                                      !.wrote = f.wrote \cup {meta_path}]]
              /\ fs' = [fs EXCEPT ![meta_path] = JsonFile(f.metadata, TRUE, p)]
           \/ /\ inv' = [inv EXCEPT ![p] =
                            Raise([f EXCEPT !.absorbed = f.absorbed \cup {"metadata"}],
                                  "metadata")]
              /\ fs' = fs
        /\ UNCHANGED <<pure, dirs, ffmpeg_installed, calls, last_return, raised>>

\* Lines 185-191: the sidecar is written inside try/except.  open() may
\* raise (nothing changes), or json.dump may raise after open() truncated the
\* file.
WriteMetadata(p) ==
    LET f == inv[p]
        meta_path == MetaPath(f.output_path)
    IN  /\ f.pc = "metadata"
        /\ \/ /\ inv' = [inv EXCEPT ![p] =
                            [f EXCEPT !.pc = "cleanup",
                                      !.wrote = f.wrote \cup {meta_path}]]
              /\ fs' = [fs EXCEPT ![meta_path] = JsonFile(f.metadata, TRUE, p)]
           \/ /\ inv' = [inv EXCEPT ![p] =
                            [f EXCEPT !.pc = "cleanup",
                                      !.absorbed = f.absorbed \cup {"metadata"}]]
              /\ fs' = fs
           \/ /\ inv' = [inv EXCEPT ![p] =
                            [f EXCEPT !.pc = "cleanup",
                                      !.wrote = f.wrote \cup {meta_path},
                                      !.absorbed = f.absorbed \cup {"metadata"}]]
              /\ fs' = [fs EXCEPT ![meta_path] = JsonFile(f.metadata, FALSE, p)]
        /\ UNCHANGED <<pure, dirs, ffmpeg_installed, calls, last_return, raised>>

\* AfterCleanup with the path to remove computed from the input path again
\* instead of taken from converted_path.
AfterCleanup_ByName(f) ==
    IF Exists(TempPath(f.input_path))
    THEN { [fs EXCEPT ![TempPath(f.input_path)] = NoFile], fs }
    ELSE { fs }

\* "if converted_path and os.path.exists(converted_path): os.remove(...)"
\* with the removal's own failure ignored: the filesystems this may leave.
AfterCleanup(f) ==
    IF f.converted_path # NoPath /\ Exists(f.converted_path)
    THEN { [fs EXCEPT ![f.converted_path] = NoFile], fs }
    ELSE { fs }

\* Lines 193-200: clean up and return (duration, final_sr).
Return(p) ==
    LET f == inv[p]
        r == Ret(f.duration, f.final_sr)
    IN  /\ f.pc = "cleanup"
        /\ \E fs2 \in AfterCleanup(f) :
              /\ fs' = fs2
              /\ inv' = [inv EXCEPT ![p] = Finished(f, "returned", r, fs2)]
        /\ last_return' = [last_return EXCEPT ![f.output_path] = r]
        /\ UNCHANGED <<pure, dirs, ffmpeg_installed, calls, raised>>

\* Lines 201-208: clean up and re-raise.
ExceptHandler(p) ==
    LET f == inv[p]
    IN  /\ f.pc = "except"
        /\ \E fs2 \in AfterCleanup(f) :
              /\ fs' = fs2
              /\ inv' = [inv EXCEPT ![p] = Finished(f, "raised", NoRet, fs2)]
        /\ raised' = TRUE
        /\ UNCHANGED <<pure, dirs, ffmpeg_installed, calls, last_return>>

Next ==
    \E p \in Procs :
        \/ Call(p)
        \/ ConvertToWav(p)
        \/ SubprocessRun(p)
        \/ Load(p)
        \/ Stages(p)
        \/ Makedirs(p)
        \/ Write(p)
        \/ WriteMetadata(p)
        \/ Return(p)
        \/ ExceptHandler(p)

Spec == Init /\ [][Next]_vars

\* One worker serving one request at a time: a call starts when the worker's
\* previous call is over, and no other invocation runs.
SerialProcs == {CHOOSE p \in Procs : \A q \in Procs : p <= q}

CallSerial(p) ==
    /\ \A q \in Procs : inv[q].pc \in {"idle", "done"}
    /\ Call(p)

NextSerial ==
    \E p \in SerialProcs :
        \/ CallSerial(p)
        \/ ConvertToWav(p)
        \/ SubprocessRun(p)
        \/ Load(p)
        \/ Stages(p)
        \/ Makedirs(p)
        \/ Write(p)
        \/ WriteMetadata(p)
        \/ Return(p)
        \/ ExceptHandler(p)

SpecSerial == Init /\ [][NextSerial]_vars

\* ------------------------------------------------- pure functions alone

\* The sample positions librosa.effects.split can report for n samples: frame
\* k starts at k * hop_length, clipped to n.
FrameEdges(n) == { Min(k * hop_length, n) : k \in 0..NumFrames(n) }

\* One non-silent interval of a buffer of n samples.
FrameIntervals(n) ==
    { iv \in FrameEdges(n) \X FrameEdges(n) :
        iv[1] < iv[2] \/ (iv[1] = n /\ iv[2] = n) }

\* What librosa.effects.split can return for n samples: at most MaxIntervals
\* intervals, left to right, with silence between two of them.
Candidates(n) ==
    UNION { { s \in [1..k -> FrameIntervals(n)] :
                \A i \in 1..(k - 1) : s[i][2] < s[i + 1][1] } :
            k \in 0..MaxIntervals }

\* The buffers vad_with_librosa is called on: <<sample count, sample rate>>.
VadBuffers == { <<3424, 8000>>, <<4096, 5120>> }

VadCalls ==
    UNION { { [NoCall EXCEPT !.fn = "vad_with_librosa", !.pc = "called",
                             !.sr = b[2], !.intervals = iv] :
                iv \in Candidates(b[1]) } :
            b \in VadBuffers }

\* The sample values of the buffers normalize_peak is called on.
SampleValues == { <<0 - 1, 1>>, <<0 - 1, 2>>, <<0, 1>>, <<1, 4>>, <<1, 1>> }

SampleArrays == UNION { [1..k -> SampleValues] : k \in 0..MaxSamples }

NormalizeCalls ==
    { [NoCall EXCEPT !.fn = "normalize_peak", !.pc = "called", !.y = y] :
        y \in SampleArrays }

\* One call of vad_with_librosa or of normalize_peak has been made.
InitPure ==
    /\ fs = [p \in AllPaths |-> InitialFile(p)]
    /\ dirs = {"raw"}
    /\ ffmpeg_installed = TRUE
    /\ inv = [p \in Procs |-> [NoFrame EXCEPT !.self = p]]
    /\ calls = 0
    /\ last_return = [o \in OutputPaths |-> NoRet]
    /\ raised = FALSE
    /\ pure \in VadCalls \cup NormalizeCalls

\* vad_with_librosa returns.
VadWithLibrosa ==
    /\ pure.fn = "vad_with_librosa"
    /\ pure.pc = "called"
    /\ pure' = [pure EXCEPT !.pc = "returned",
                            !.segments = vad_with_librosa(pure.intervals, pure.sr)]
    /\ UNCHANGED <<fs, dirs, ffmpeg_installed, inv, calls, last_return, raised>>

\* normalize_peak returns.
NormalizePeak ==
    /\ pure.fn = "normalize_peak"
    /\ pure.pc = "called"
    /\ pure' = [pure EXCEPT !.pc = "returned",
                            !.y_out = normalize_peak_array(pure.y)]
    /\ UNCHANGED <<fs, dirs, ffmpeg_installed, inv, calls, last_return, raised>>

NextPure == VadWithLibrosa \/ NormalizePeak

SpecPure == InitPure /\ [][NextPure]_vars

\* ------------------------------------------------------------------ claims

\* The error of a raise that a failing library call of the named stage caused.
StageFaults == {"load", "vad", "stitch", "profile", "resample", "makedirs", "write"}

\* The errors convert_to_wav can end with.
ConversionErrors ==
    {CaptureOutputError, "ffmpeg is not installed", "Audio conversion failed"}

DecodingErrors == ConversionErrors \cup {"load", "unreadable"}

EncodingErrors == {"makedirs", "write"}

InFlight(f) == f.pc \notin {"idle", "done"}

C2_DistinctTempFiles ==
    /\ \A p, q \in Procs :
          (p # q /\ inv[p].temp_path # NoPath /\ inv[q].temp_path # NoPath)
            => inv[p].temp_path # inv[q].temp_path
    /\ \A p \in Procs : ~inv[p].foreign

\* C3: when a call ended by raising, none of the files that run wrote (the
\* output audio, the sidecar, the temporary decoded file) exists.
C3_FailedRunLeavesNothing ==
    \A p \in Procs :
        (inv[p].pc = "done" /\ inv[p].outcome = "raised")
            => inv[p].at_exit \cap inv[p].wrote = {}

\* C4: a call raises only from Decoding (conversion, loading) or Encoding
\* (output directory, output file); a fault in Segmenting, Stitching,
\* ProfileEstimation, Denoising or MetadataWrite is absorbed.
C4_OnlyDecodingAndEncodingRaise ==
    \A p \in Procs :
        (inv[p].pc = "done" /\ inv[p].outcome = "raised")
            => inv[p].error \in DecodingErrors \cup EncodingErrors

\* C5: in a run whose denoising failed, the pre-denoise buffer is passed on
\* unchanged and the sidecar the run wrote does not list the denoise step.
C5_DenoiseFailureNotRecorded ==
    \A p \in Procs :
        LET f == inv[p]
            sidecar == fs[MetaPath(f.output_path)]
        IN  (f.pc = "cleanup" /\ "denoise" \in f.absorbed)
                => /\ f.y_denoised = f.target_for_denoise
                   /\ (MetaPath(f.output_path) \in f.wrote /\ sidecar.complete)
                        => \A i \in DOMAIN sidecar.meta.processing_steps :
                              sidecar.meta.processing_steps[i]
                                  # "NoiseReduction(noisereduce)"

\* C6: with ffmpeg installed, a call on an input whose extension is one of
\* .webm .mp3 .m4a .ogg .flac that ffmpeg does not reject gets
\* <input-stem>_converted.wav back from convert_to_wav, gives the loader that
\* path and not the input's, and returns (duration, sample_rate): it raises
\* only if ffmpeg exits with a non-zero status or a later library call fails.
C6_DecodedInputIsProcessed ==
    \A p \in Procs :
        LET f == inv[p]
        IN  /\ f.decoded =>
                  /\ Lower(f.input_path.ext) \in ConvExts
                  /\ f.pc \in {"load", "stages", "makedirs", "write",
                               "metadata", "cleanup"} =>
                        /\ f.converted_path = TempPath(f.input_path)
                        /\ f.load_path = f.converted_path
                        /\ f.load_path # f.input_path
            /\ (f.pc = "done" /\ needs_conversion(f.input_path)
                    /\ ffmpeg_installed) =>
                  \/ f.outcome = "returned" /\ f.ret.set
                  \/ f.outcome = "raised" /\
                        f.error \in StageFaults \cup {"Audio conversion failed"}

\* C7: without ffmpeg, a call on an input that needs conversion raises an
\* error of convert_to_wav and goes no further than the conversion; a call on
\* a .wav input never starts ffmpeg, and raises only if a library call of its
\* own stages fails.
C7_MissingFfmpeg ==
    \A p \in Procs :
        LET f == inv[p]
        IN  /\ (InFlight(f) /\ needs_conversion(f.input_path) /\ ~ffmpeg_installed)
                => f.pc \in {"convert", "ffmpeg", "except"}
            /\ (f.pc = "done" /\ needs_conversion(f.input_path) /\ ~ffmpeg_installed)
                => f.outcome = "raised" /\ f.error \in ConversionErrors
            /\ (f.pc # "idle" /\ ~needs_conversion(f.input_path))
                => /\ f.ffmpeg_runs = 0
                   /\ f.temp_path = NoPath
                   /\ f.pc = "done" =>
                        \/ f.outcome = "returned" /\ f.ret.set
                        \/ f.outcome = "raised" /\ f.error \in StageFaults

\* Without ffmpeg a .wav call has returned, and a later call on an input that
\* needs conversion has raised.
C7_Witness ==
    /\ ~ffmpeg_installed
    /\ \E o \in OutputPaths : last_return[o].set
    /\ \E p \in Procs :
          /\ inv[p].pc = "done"
          /\ needs_conversion(inv[p].input_path)
          /\ inv[p].outcome = "raised"

\* C8: between calls, after calls that all returned, a sidecar that exists
\* parses and its final_sr and final_duration_sec are what the latest call
\* on that output path returned.
C8_SidecarMatchesLastReturn ==
    \A o \in OutputPaths :
        LET sidecar == fs[MetaPath(o)]
        IN  (/\ \A p \in Procs : ~InFlight(inv[p])
             /\ ~raised
             /\ last_return[o].set
             /\ Exists(MetaPath(o)))
                => /\ sidecar.complete
                   /\ sidecar.meta.final_sr = last_return[o].sr
                   /\ sidecar.meta.final_duration_sec = last_return[o].duration

\* C9: after the resampling step final_sr = target_sr, with the buffer
\* untouched when the native rate is already target_sr; the output file has
\* that rate and a call that returns returns it.
C9_FinalRateIsTarget ==
    \A p \in Procs :
        LET f == inv[p]
        IN  /\ f.pc \in {"makedirs", "write", "metadata", "cleanup"}
                => /\ f.final_sr = f.target_sr
                   /\ f.sr = f.target_sr => f.y_resampled = f.y_normalized
                   /\ f.sr # f.target_sr =>
                        f.y_resampled.len =
                            CeilDiv(f.y_normalized.len * f.target_sr, f.sr)
            /\ f.pc \in {"metadata", "cleanup"}
                => fs[f.output_path].sr = f.target_sr
            /\ (f.pc = "done" /\ f.outcome = "returned")
                => f.ret.set /\ f.ret.sr = f.target_sr

\* A call in the identity branch is about to return, after an earlier call
\* that resampled has returned.
C9_Witness ==
    \E p \in Procs :
        /\ inv[p].pc = "cleanup"
        /\ inv[p].sr = inv[p].target_sr
        /\ inv[p].y_resampled.len > 0
        /\ last_return[inv[p].output_path].set
        /\ last_return[inv[p].output_path].sr # inv[p].target_sr

\* C10: a failure of the sidecar write is never the cause of a raise; the
\* call whose sidecar write failed has written the output file and returns
\* (sample count / final_sr, final_sr), the file's duration and rate.
C10_MetadataFailureIsAbsorbed ==
    \A p \in Procs :
        LET f == inv[p]
            out == fs[f.output_path]
        IN  /\ (f.pc = "cleanup" /\ "metadata" \in f.absorbed)
                => /\ f.output_path \in f.wrote
                   /\ out.complete
                   /\ out.writer = p
            /\ (f.pc \in {"except", "done"} /\ "metadata" \in f.absorbed)
                => /\ f.pc = "done"
                   /\ f.outcome = "returned"
                   /\ f.ret.set
                   /\ f.ret.sr = f.target_sr
                   /\ (Exists(f.output_path) /\ out.writer = p)
                        => f.ret = Ret(Frac(out.len, out.sr), out.sr)

C10_Witness ==
    \E p \in Procs :
        /\ inv[p].pc = "done"
        /\ "metadata" \in inv[p].absorbed
        /\ inv[p].outcome = "returned"
        /\ Exists(inv[p].output_path)

\* C11: once the in-memory stages are done, the buffer handed to the denoiser
\* is the stitched buffer when that one is non-empty and the loaded buffer
\* otherwise; the stitched buffer is empty when no segment survived; the
\* noise profile is cut from the loaded buffer; and a run whose VAD result
\* was empty goes on with all the samples of the loaded buffer and writes
\* them out.
C11_DenoiserInput ==
    \A p \in Procs :
        LET f == inv[p]
        IN  f.pc \in {"makedirs", "write", "metadata", "cleanup"} =>
              /\ f.y_vad = concatenate_segments(f.y, f.sr, f.segments)
              /\ f.y_vad.len > 0 => f.target_for_denoise = f.y_vad
              /\ f.y_vad.len = 0 => f.target_for_denoise = f.y
              /\ Len(f.segments) = 0 => f.y_vad.len = 0
              /\ \E min_frame \in MinFrames(f.y, f.sr) :
                    f.noise_profile = get_noise_profile(f.y, f.sr, min_frame)
              /\ f.noise_profile.audio = f.y.audio
              /\ f.noise_profile.ops = Append(f.y.ops, "profile")
              /\ Len(f.segments) = 0 =>
                    /\ f.y_denoised.len = f.y.len
                    /\ f.y_resampled.len = CeilDiv(f.y.len * f.target_sr, f.sr)
                    /\ f.pc \in {"metadata", "cleanup"} =>
                          fs[f.output_path].len = f.y_resampled.len

\* A call whose VAD result was empty has written its output and is about to
\* return, after a call whose VAD result was not empty has returned.
C11_Witness ==
    \E p \in Procs :
        /\ inv[p].pc = "cleanup"
        /\ Len(inv[p].segments) = 0
        /\ inv[p].y.len > 0
        /\ inv[p].target_for_denoise = inv[p].y
        /\ last_return[inv[p].output_path].set
        /\ last_return[inv[p].output_path].duration
              # Frac(inv[p].y.len, inv[p].sr)

FracEq(a, b) == a[1] * b[2] = b[1] * a[2]

\* min_segment_duration as a fraction.
MinSegmentDuration == <<MinSegNum, MinSegDen>>

Thousandths(a) == (a[1] * 1000) \div a[2]

\* C13: normalize_peak returns an empty buffer and an all-zero buffer as they
\* are (it divides by the peak only when the peak is not 0); of any other
\* buffer every output sample is input[i] / peak * target_peak, one output
\* sample has magnitude target_peak and none has more.
C13_NormalizePeak ==
    (pure.fn = "normalize_peak" /\ pure.pc = "returned") =>
        LET y == pure.y
            out == pure.y_out
            silent == \A i \in DOMAIN y : y[i][1] = 0
        IN  /\ Len(out) = Len(y)
            /\ (Len(y) = 0 \/ silent) => out = y
            /\ ~(Len(y) = 0 \/ silent) =>
                  LET peak == ArrayMax(ArrayAbs(y), 1)
                  IN  /\ peak[1] # 0
                      /\ \A i \in DOMAIN y :
                            FracEq(FracMul(out[i], peak), FracMul(y[i], TargetPeak))
                      /\ \E i \in DOMAIN y : FracEq(FracAbs(out[i]), TargetPeak)
                      /\ \A i \in DOMAIN y : FracLeq(FracAbs(out[i]), TargetPeak)
            /\ LET in_peak == IF Len(y) = 0 THEN 0
                              ELSE Thousandths(ArrayMax(ArrayAbs(y), 1))
                   out_peak == IF Len(out) = 0 THEN 0
                               ELSE Thousandths(ArrayMax(ArrayAbs(out), 1))
                   buf == normalize_peak(Buf(Len(y), in_peak, NoPath, <<>>))
               IN  buf.len = Len(out) /\ buf.peak = out_peak

\* normalize_peak has scaled a buffer whose peak is a negative sample and
\* that has a smaller sample too.
C13_Witness ==
    /\ pure.fn = "normalize_peak"
    /\ pure.pc = "returned"
    /\ pure.y_out # pure.y
    /\ \E i, j \in DOMAIN pure.y :
          /\ pure.y[i][1] < 0
          /\ FracEq(FracAbs(pure.y_out[i]), TargetPeak)
          /\ pure.y[j][1] # 0
          /\ FracLess(FracAbs(pure.y_out[j]), TargetPeak)

====
